---- MODULE Spec2Model ----
(***************************************************************************)
(* Model of src/src/index.ts: the registry of temporary paths, the exit    *)
(* listener, the synchronous and asynchronous cleanup passes, the          *)
(* factories that register what they create, and promisify.                *)
(*                                                                         *)
(* Paths are the numbers 1..MaxNames: generateName yields a fresh name on  *)
(* every call (date, pid and a random base-36 part).  The file system and  *)
(* rimraf/mkdirp/fs are the environment: every outcome they can report is  *)
(* a nondeterministic input of the action that receives it.                *)
(***************************************************************************)
EXTENDS Naturals, Sequences, FiniteSets

\* ------------------------------------------------------------------ bounds
MaxNames == 2    \* names generated in one run of the process
MaxCalls == 2    \* asynchronous cleanup calls whose removals overlap

Names == 1..MaxNames
Slots == 1..MaxCalls

\* ------------------------------------------------------------------ values
\* An optional value: <<>> is JavaScript's undefined, <<v>> is v.
Undefined == <<>>
Some(v) == <<v>>

NoErr == "null"
NotTracking == "not tracking"
RimrafErr == "rimraf error"

\* What a call handed back: kind is "false" (the sentinel), "count", "stats",
\* "threw", "path" (a factory's result) or "none" (nothing returned yet).
Res(kind, f, d) == [kind |-> kind, files |-> f, dirs |-> d]
NoRes == Res("none", Undefined, Undefined)

VARIABLES
  tracking,              \* index.ts:103
  exitListenerAttached,  \* index.ts:109
  filesToDelete,         \* index.ts:110
  dirsToDelete,          \* index.ts:111
  exitListeners,         \* number of listeners process.addListener("exit") holds
  nextName,              \* names generated so far
  pendingCreate,         \* creations handed to fs/mkdirp that have not reported
  created,               \* paths whose creation reported success
  calls,                 \* the closures of the asynchronous cleanup calls
  exitState,             \* "running", "exited" or "threw"
  warned,                \* the exit listener has called console.warn
  trackCalled,           \* history: track() has been called
  last,                  \* history: the last operation, what it returned, what it removed
  promisified,           \* one use of promisify: what it returned and what came of it
  drained                \* history: the removals requested and the counts reported so far

vars == <<tracking, exitListenerAttached, filesToDelete, dirsToDelete,
          exitListeners, nextName, pendingCreate, created, calls,
          exitState, warned, trackCalled, last, promisified, drained>>

registry == <<tracking, exitListenerAttached, filesToDelete, dirsToDelete, exitListeners>>
creation == <<nextName, pendingCreate, created>>

\* Every variable but promisified.
module == <<tracking, exitListenerAttached, filesToDelete, dirsToDelete,
            exitListeners, nextName, pendingCreate, created, calls,
            exitState, warned, trackCalled, last, drained>>

\* ------------------------------------------------------------------ promisify
MaxResults == 2          \* results in one call of a callback
MaxCallbackCalls == 2    \* calls of the callback promisify returned

\* The JavaScript values that pass through promisify.
JsValue(type, n, items) == [type |-> type, n |-> n, items |-> items]
JsUndefined == JsValue("undefined", 0, <<>>)
JsNull == JsValue("null", 0, <<>>)
JsError == JsValue("error", 0, <<>>)
JsNumber(n) == JsValue("number", n, <<>>)
JsArray(items) == JsValue("array", 0, items)

Truthy(v) == v.type \in {"error", "array"} \/ (v.type = "number" /\ v.n # 0)

SeqsOf(S, n) == UNION {[1..k -> S] : k \in 0..n}

\* What a callback is called with: nothing at all, or an error or null
\* followed by results.
Arguments ==
  {<<>>} \cup {<<e>> \o rs : e \in {JsNull, JsError},
                              rs \in SeqsOf({JsNumber(1), JsNumber(2)}, MaxResults)}

Promise(state, value) == [state |-> state, value |-> value]
NoPromise == Promise("none", JsUndefined)
PendingPromise == Promise("pending", JsUndefined)

\* promisify(callback): the pair it returns.
promisify(callback) ==
  IF callback = "function"
    THEN [promise |-> NoPromise, callback |-> "callback"]
    ELSE [promise |-> PendingPromise, callback |-> "promiseCallback"]

\* promiseCallback: args = Array.from(arguments), err = args.shift(); what it
\* hands to process.nextTick.
promiseCallback(arguments) ==
  IF arguments = <<>>
    THEN [err |-> JsUndefined, args |-> <<>>]
    ELSE [err |-> Head(arguments), args |-> Tail(arguments)]

\* resolve and reject act on a pending promise only.
Settle(promise, outcome) == IF promise.state = "pending" THEN outcome ELSE promise

\* The function promiseCallback hands to process.nextTick (index.ts:38-46).
nextTickCallback(promise, t) ==
  IF Truthy(t.err) THEN Settle(promise, Promise("rejected", t.err))
  ELSE IF Len(t.args) = 1 THEN Settle(promise, Promise("resolved", t.args[1]))
  ELSE Settle(promise, Promise("resolved", JsArray(t.args)))

NotPromisified ==
  [returned |-> FALSE, supplied |-> "undefined", promise |-> NoPromise,
   callback |-> "none", ticks |-> <<>>, received |-> <<>>, calls |-> 0]

\* A function of the module calls promisify with what its caller supplied.
callPromisify(callback) ==
  /\ ~promisified.returned
  /\ LET r == promisify(callback) IN
       promisified' = [promisified EXCEPT !.returned = TRUE, !.supplied = callback,
                                          !.promise = r.promise, !.callback = r.callback]
  /\ UNCHANGED module

\* The function calls the callback promisify returned.
callCallback(arguments) ==
  /\ promisified.returned
  /\ promisified.calls < MaxCallbackCalls
  /\ promisified' =
       IF promisified.callback = "callback"
         THEN [promisified EXCEPT !.calls = @ + 1, !.received = Append(@, arguments)]
         ELSE [promisified EXCEPT !.calls = @ + 1,
                                  !.ticks = Append(@, promiseCallback(arguments))]
  /\ UNCHANGED module

\* The event loop runs the oldest function handed to process.nextTick.
nextTick ==
  /\ promisified.ticks # <<>>
  /\ promisified' =
       [promisified EXCEPT !.ticks = Tail(@),
                           !.promise = nextTickCallback(@, Head(promisified.ticks))]
  /\ UNCHANGED module

\* ------------------------------------------------------------------ history
\* before: what the operation before this one returned, when this one and that
\* one are both cleanupSync.
\* call: the closure of the asynchronous cleanup the operation started or
\* called back into, as the operation left it.
Last(op, res, attempted, call) ==
  [op |-> op, res |-> res, attempted |-> attempted, call |-> call,
   before |-> IF op = "cleanupSync" /\ last.op = "cleanupSync" THEN last.res ELSE NoRes]

SeqToSet(s) == {s[i] : i \in 1..Len(s)}

\* requests[p]: the removals of p requested so far, of rimrafSync and of
\* rimraf; failed: one of them has failed; counted: the sum of the counts the
\* cleanup calls have reported, kept as long as no removal has failed.  The
\* history is kept where `on` is set; a specification none of whose
\* properties reads it starts with it off.
NothingDrained ==
  [on |-> TRUE, requests |-> [p \in Names |-> 0], failed |-> FALSE, counted |-> 0]

NotRecording == [NothingDrained EXCEPT !.on = FALSE]

Occurrences(p, s) == Cardinality({k \in 1..Len(s) : s[k] = p})

\* drained after a step that requested the removals `taken`, in which calls
\* reported counts summing to `counts`, and in which a removal failed or not.
Drained(taken, counts, fail) ==
  IF ~drained.on THEN drained
  ELSE [on |-> TRUE,
        requests |-> [p \in Names |-> drained.requests[p] + Occurrences(p, taken)],
        failed |-> drained.failed \/ fail,
        counted |-> IF drained.failed \/ fail THEN 0 ELSE drained.counted + counts]

\* The count an optional value carries, 0 for undefined.
CountOf(v) == IF v = Undefined THEN 0 ELSE v[1]

\* The counts a {files, dirs} result carries.
StatsCount(res) ==
  IF res.kind = "stats" THEN CountOf(res.files) + CountOf(res.dirs) ELSE 0

\* The counts a call reported in the step that took its closure from `before`
\* to `after`: those in what cleanup's callback got, or, for a drain called on
\* its own, the count its completion got.
DeliveredCount(before, after) ==
  IF after.op = "cleanup"
    THEN IF Len(after.delivered) > Len(before.delivered)
           THEN LET v == after.delivered[Len(after.delivered)] IN
                IF v.result = Undefined THEN 0
                ELSE CountOf(v.result[1].files) + CountOf(v.result[1].dirs)
           ELSE 0
    ELSE LET n == Len(after.files.done) + Len(after.dirs.done)
             o == Len(before.files.done) + Len(before.dirs.done)
             d == IF after.op = "cleanupFiles" THEN after.files ELSE after.dirs
         IN IF n > o THEN CountOf(d.done[Len(d.done)].count) ELSE 0

\* ------------------------------------------------------------------ state at load
TrackingDefaultOn == TRUE
TrackingDefault == FALSE

\* One drain's closure (count, left) and what it has dispatched and reported.
NoDrain ==
  [started |-> FALSE, dispatched |-> <<>>, inflight |-> {}, oks |-> 0, failed |-> {},
   count |-> 0, left |-> 0, done |-> <<>>]

NoCall == [op |-> "idle", files |-> NoDrain, dirs |-> NoDrain, delivered |-> <<>>]

\* What `last` holds after an operation whose result no property reads.
Quiet == [op |-> "other", res |-> NoRes, attempted |-> <<>>, call |-> NoCall, before |-> NoRes]

\* The module as loaded (index.ts:103-111).
Loaded ==
  /\ tracking = TrackingDefault
  /\ exitListenerAttached = FALSE
  /\ filesToDelete = <<>>
  /\ dirsToDelete = <<>>
  /\ exitListeners = 0
  /\ nextName = 0
  /\ pendingCreate = {}
  /\ created = {}
  /\ calls = [c \in Slots |-> NoCall]
  /\ exitState = "running"
  /\ warned = FALSE
  /\ trackCalled = FALSE
  /\ last = Quiet
  /\ promisified = NotPromisified

Init == Loaded /\ drained = NotRecording

InitRecording == Loaded /\ drained = NothingDrained

Running == exitState = "running"

\* ------------------------------------------------------------------ track
TrackValue(value) == value # FALSE

track(value) ==
  /\ Running
  /\ tracking' = TrackValue(value)
  /\ trackCalled' = TRUE
  /\ last' = Quiet
  /\ UNCHANGED <<exitListenerAttached, filesToDelete, dirsToDelete, exitListeners,
                 creation, calls, exitState, warned, promisified, drained>>

\* ------------------------------------------------------------------ registration
attachExitListenerUnguarded ==
  IF ~tracking
    THEN UNCHANGED <<exitListenerAttached, exitListeners>>
    ELSE /\ exitListeners' = exitListeners + 1
         /\ exitListenerAttached' = TRUE

attachExitListener ==
  IF ~tracking
    THEN UNCHANGED <<exitListenerAttached, exitListeners>>
    ELSE IF ~exitListenerAttached
      THEN /\ exitListeners' = exitListeners + 1
           /\ exitListenerAttached' = TRUE
      ELSE UNCHANGED <<exitListenerAttached, exitListeners>>

\* deleteFileOnExit without its test of `tracking`.
deleteFileOnExitUntested(filePath) ==
  /\ attachExitListener
  /\ filesToDelete' = Append(filesToDelete, filePath)

deleteFileOnExit(filePath) ==
  IF ~tracking
    THEN UNCHANGED <<exitListenerAttached, exitListeners, filesToDelete>>
    ELSE /\ attachExitListener
         /\ filesToDelete' = Append(filesToDelete, filePath)

\* deleteDirOnExit without its call of attachExitListener.
deleteDirOnExitNoListener(dirPath) ==
  IF ~tracking
    THEN UNCHANGED <<exitListenerAttached, exitListeners, dirsToDelete>>
    ELSE /\ UNCHANGED <<exitListenerAttached, exitListeners>>
         /\ dirsToDelete' = Append(dirsToDelete, dirPath)

deleteDirOnExit(dirPath) ==
  IF ~tracking
    THEN UNCHANGED <<exitListenerAttached, exitListeners, dirsToDelete>>
    ELSE /\ attachExitListener
         /\ dirsToDelete' = Append(dirsToDelete, dirPath)

\* ------------------------------------------------------------------ names
\* parseAffixes: a falsy value, a string or an object is accepted, anything
\* else truthy (a number, say) raises.  The factories are called with an
\* options object or with a number.
AffixKinds == {"object", "number"}
parseAffixesThrows(rawAffixes) == rawAffixes \notin {"undefined", "string", "object"}

generateName == nextName + 1

CanGenerate == nextName < MaxNames

\* A factory call that raised before anything was created or registered.
Raised ==
  /\ last' = Quiet
  /\ UNCHANGED <<registry, pendingCreate, created, calls, exitState, warned, trackCalled, promisified, drained>>

\* ------------------------------------------------------------------ directories
\* mkdir: the name is generated and mkdirp is started; its callback comes later.
mkdir(affixes) ==
  /\ Running /\ CanGenerate
  /\ IF parseAffixesThrows(affixes)
       THEN Raised /\ UNCHANGED nextName
       ELSE /\ nextName' = generateName
            /\ pendingCreate' = pendingCreate \cup {[path |-> generateName, op |-> "mkdir"]}
            /\ last' = Quiet
            /\ UNCHANGED <<registry, created, calls, exitState, warned, trackCalled, promisified, drained>>

\* mkdirp's callback (index.ts:291-296).
mkdirCallback(dirPath, err) ==
  /\ Running
  /\ [path |-> dirPath, op |-> "mkdir"] \in pendingCreate
  /\ pendingCreate' = pendingCreate \ {[path |-> dirPath, op |-> "mkdir"]}
  /\ IF ~err
       THEN /\ deleteDirOnExit(dirPath)
            /\ created' = created \cup {dirPath}
       ELSE UNCHANGED <<exitListenerAttached, exitListeners, dirsToDelete, created>>
  /\ last' = Quiet
  /\ UNCHANGED <<tracking, filesToDelete, nextName, calls, exitState, warned, trackCalled, promisified, drained>>

mkdirSync(affixes, ok) ==
  /\ Running /\ CanGenerate
  /\ IF parseAffixesThrows(affixes)
       THEN Raised /\ UNCHANGED nextName
       ELSE /\ nextName' = generateName
            /\ IF ok
                 THEN /\ deleteDirOnExit(generateName)
                      /\ created' = created \cup {generateName}
                      /\ last' = Quiet
                 ELSE /\ last' = Quiet
                      /\ UNCHANGED <<exitListenerAttached, exitListeners, dirsToDelete, created>>
            /\ UNCHANGED <<tracking, filesToDelete, pendingCreate, calls, exitState, warned, trackCalled, promisified, drained>>

\* ------------------------------------------------------------------ files
open(affixes) ==
  /\ Running /\ CanGenerate
  /\ IF parseAffixesThrows(affixes)
       THEN Raised /\ UNCHANGED nextName
       ELSE /\ nextName' = generateName
            /\ pendingCreate' = pendingCreate \cup {[path |-> generateName, op |-> "open"]}
            /\ last' = Quiet
            /\ UNCHANGED <<registry, created, calls, exitState, warned, trackCalled, promisified, drained>>

\* fs.open's callback (index.ts:320-325).
openCallback(path, err) ==
  /\ Running
  /\ [path |-> path, op |-> "open"] \in pendingCreate
  /\ pendingCreate' = pendingCreate \ {[path |-> path, op |-> "open"]}
  /\ IF ~err
       THEN /\ deleteFileOnExit(path)
            /\ created' = created \cup {path}
       ELSE UNCHANGED <<exitListenerAttached, exitListeners, filesToDelete, created>>
  /\ last' = Quiet
  /\ UNCHANGED <<tracking, dirsToDelete, nextName, calls, exitState, warned, trackCalled, promisified, drained>>

openSync(affixes, ok) ==
  /\ Running /\ CanGenerate
  /\ IF parseAffixesThrows(affixes)
       THEN Raised /\ UNCHANGED nextName
       ELSE /\ nextName' = generateName
            /\ IF ok
                 THEN /\ deleteFileOnExit(generateName)
                      /\ created' = created \cup {generateName}
                      /\ last' = Quiet
                 ELSE /\ last' = Quiet
                      /\ UNCHANGED <<exitListenerAttached, exitListeners, filesToDelete, created>>
            /\ UNCHANGED <<tracking, dirsToDelete, pendingCreate, calls, exitState, warned, trackCalled, promisified, drained>>

\* createWriteStream: fs.createWriteStream returns the stream at once and opens
\* the file afterwards (the stream reports 'open' or 'error' later); the path is
\* registered on the next line, before either has happened.
createWriteStream(affixes) ==
  /\ Running /\ CanGenerate
  /\ IF parseAffixesThrows(affixes)
       THEN Raised /\ UNCHANGED nextName
       ELSE /\ nextName' = generateName
            /\ pendingCreate' = pendingCreate \cup {[path |-> generateName, op |-> "stream"]}
            /\ deleteFileOnExit(generateName)
            /\ last' = Quiet
            /\ UNCHANGED <<tracking, dirsToDelete, created, calls, exitState, warned, trackCalled, promisified, drained>>

\* The stream's own open finishing: 'open' (err = FALSE) or 'error'.
streamOpened(path, err) ==
  /\ Running
  /\ [path |-> path, op |-> "stream"] \in pendingCreate
  /\ pendingCreate' = pendingCreate \ {[path |-> path, op |-> "stream"]}
  /\ IF ~err
       THEN created' = created \cup {path}
       ELSE UNCHANGED created
  /\ last' = Quiet
  /\ UNCHANGED <<registry, nextName, calls, exitState, warned, trackCalled, promisified, drained>>

\* ------------------------------------------------------------------ synchronous cleanup
\* The loop reading the head and shifting it only once rimrafSync has
\* returned: an entry whose removal raises stays in the list.
RECURSIVE ShiftAndRemoveSyncKeepFailed(_, _, _, _)
ShiftAndRemoveSyncKeepFailed(list, bad, count, attempted) ==
  IF list = <<>>
    THEN [threw |-> FALSE, off |-> FALSE, count |-> count, attempted |-> attempted, rest |-> list]
    ELSE LET toDelete == Head(list) IN
         IF toDelete \in bad
           THEN [threw |-> TRUE, off |-> FALSE, count |-> count,
                 attempted |-> Append(attempted, toDelete), rest |-> list]
           ELSE ShiftAndRemoveSyncKeepFailed(Tail(list), bad, count + 1, Append(attempted, toDelete))

\* The loop with pop() where shift() is: the newest entry is removed first.
RECURSIVE PopAndRemoveSync(_, _, _, _)
PopAndRemoveSync(list, bad, count, attempted) ==
  IF list = <<>>
    THEN [threw |-> FALSE, off |-> FALSE, count |-> count, attempted |-> attempted, rest |-> list]
    ELSE LET toDelete == list[Len(list)]
             others == SubSeq(list, 1, Len(list) - 1)
         IN IF toDelete \in bad
              THEN [threw |-> TRUE, off |-> FALSE, count |-> count,
                    attempted |-> Append(attempted, toDelete), rest |-> others]
              ELSE PopAndRemoveSync(others, bad, count + 1, Append(attempted, toDelete))

\* The while loop of cleanupFilesSync / cleanupDirsSync: shift, rimrafSync,
\* count++.  bad is the set of paths on which rimrafSync raises.
RECURSIVE ShiftAndRemoveSync(_, _, _, _)
ShiftAndRemoveSync(list, bad, count, attempted) ==
  IF list = <<>>
    THEN [threw |-> FALSE, off |-> FALSE, count |-> count, attempted |-> attempted, rest |-> list]
    ELSE LET toDelete == Head(list) IN
         IF toDelete \in bad
           THEN [threw |-> TRUE, off |-> FALSE, count |-> count,
                 attempted |-> Append(attempted, toDelete), rest |-> Tail(list)]
           ELSE ShiftAndRemoveSync(Tail(list), bad, count + 1, Append(attempted, toDelete))

NotTrackingSync(list) ==
  [threw |-> FALSE, off |-> TRUE, count |-> 0, attempted |-> <<>>, rest |-> list]

\* cleanupFilesSync with an `if` where the `while` is: one entry per call.
cleanupFilesSyncOnce(bad) ==
  IF ~tracking THEN NotTrackingSync(filesToDelete)
  ELSE IF filesToDelete = <<>> THEN ShiftAndRemoveSync(filesToDelete, bad, 0, <<>>)
  ELSE LET r == ShiftAndRemoveSync(<<Head(filesToDelete)>>, bad, 0, <<>>) IN
       [r EXCEPT !.rest = Tail(filesToDelete)]

cleanupFilesSync(bad) ==
  IF ~tracking THEN NotTrackingSync(filesToDelete)
  ELSE ShiftAndRemoveSync(filesToDelete, bad, 0, <<>>)

cleanupDirsSync(bad) ==
  IF ~tracking THEN NotTrackingSync(dirsToDelete)
  ELSE ShiftAndRemoveSync(dirsToDelete, bad, 0, <<>>)

\* cleanupSync without its call of cleanupDirsSync.
cleanupSyncRunFilesOnly(bad) ==
  IF ~tracking
    THEN [res |-> Res("false", Undefined, Undefined), attempted |-> <<>>,
          files |-> filesToDelete, dirs |-> dirsToDelete]
    ELSE LET f == cleanupFilesSync(bad) IN
         IF f.threw
           THEN [res |-> Res("threw", Undefined, Undefined), attempted |-> f.attempted,
                 files |-> f.rest, dirs |-> dirsToDelete]
           ELSE [res |-> Res("stats", Some(f.count), Some(0)), attempted |-> f.attempted,
                 files |-> f.rest, dirs |-> dirsToDelete]

\* cleanupSync as a function of the state: what it returns, what it tried to
\* remove, and the two lists afterwards.
cleanupSyncRun(bad) ==
  IF ~tracking
    THEN [res |-> Res("false", Undefined, Undefined), attempted |-> <<>>,
          files |-> filesToDelete, dirs |-> dirsToDelete]
    ELSE LET f == cleanupFilesSync(bad) IN
         IF f.threw
           THEN [res |-> Res("threw", Undefined, Undefined), attempted |-> f.attempted,
                 files |-> f.rest, dirs |-> dirsToDelete]
           ELSE LET d == cleanupDirsSync(bad) IN
                IF d.threw
                  THEN [res |-> Res("threw", Undefined, Undefined),
                        attempted |-> f.attempted \o d.attempted,
                        files |-> f.rest, dirs |-> d.rest]
                  ELSE [res |-> Res("stats", Some(f.count), Some(d.count)),
                        attempted |-> f.attempted \o d.attempted,
                        files |-> f.rest, dirs |-> d.rest]

Pending == SeqToSet(filesToDelete) \cup SeqToSet(dirsToDelete)

\* The sets of paths on which rimrafSync may raise during one pass: none, or
\* one of the pending paths (the pass ends at the first one that raises).
BadSets == {{}} \cup {{p} : p \in Pending}

cleanupSync(bad) ==
  /\ Running
  /\ LET r == cleanupSyncRun(bad) IN
       /\ filesToDelete' = r.files
       /\ dirsToDelete' = r.dirs
       /\ last' = Last("cleanupSync", r.res, r.attempted, NoCall)
       /\ drained' = Drained(r.attempted, StatsCount(r.res), r.res.kind = "threw")
  /\ UNCHANGED <<tracking, exitListenerAttached, exitListeners, creation, calls,
                 exitState, warned, trackCalled, promisified>>

\* ------------------------------------------------------------------ exit
\* The exit listener with a catch that warns and does not throw.
exitListenerSwallows(bad) ==
  /\ Running
  /\ IF exitListeners = 0
       THEN /\ exitState' = "exited"
            /\ warned' = FALSE
            /\ last' = Last("exit", NoRes, <<>>, NoCall)
            /\ UNCHANGED <<filesToDelete, dirsToDelete, drained>>
       ELSE LET r == cleanupSyncRun(bad) IN
            /\ filesToDelete' = r.files
            /\ dirsToDelete' = r.dirs
            /\ warned' = (r.res.kind = "threw")
            /\ exitState' = "exited"
            /\ last' = Last("exit", r.res, r.attempted, NoCall)
            /\ drained' = Drained(r.attempted, StatsCount(r.res), r.res.kind = "threw")
  /\ pendingCreate' = {}
  /\ calls' = [c \in Slots |-> NoCall]
  /\ UNCHANGED <<tracking, exitListenerAttached, exitListeners, nextName, created, trackCalled, promisified>>

\* The process emits 'exit': the listener of attachExitListener, if one was
\* added, runs cleanupSync; an error is warned about and raised again.  The
\* process then ends: no callback of a request still in flight ever runs, and
\* the closures that waited for them are gone.
exitListener(bad) ==
  /\ Running
  /\ IF exitListeners = 0
       THEN /\ exitState' = "exited"
            /\ warned' = FALSE
            /\ last' = Last("exit", NoRes, <<>>, NoCall)
            /\ UNCHANGED <<filesToDelete, dirsToDelete, drained>>
       ELSE LET r == cleanupSyncRun(bad) IN
            /\ filesToDelete' = r.files
            /\ dirsToDelete' = r.dirs
            /\ warned' = (r.res.kind = "threw")
            /\ exitState' = IF r.res.kind = "threw" THEN "threw" ELSE "exited"
            /\ last' = Last("exit", r.res, r.attempted, NoCall)
            /\ drained' = Drained(r.attempted, StatsCount(r.res), r.res.kind = "threw")
  /\ pendingCreate' = {}
  /\ calls' = [c \in Slots |-> NoCall]
  /\ UNCHANGED <<tracking, exitListenerAttached, exitListeners, nextName, created, trackCalled, promisified>>

\* ------------------------------------------------------------------ asynchronous cleanup
\* One invocation of a drain's completion callback: callback(err) passes no
\* count, callback(err, count) passes one.
Completion(err, count) == [err |-> err, count |-> count]

\* The loop with an `if` where the `while` is: only the head is dispatched.
ShiftAndDispatchHead(list, dispatched) ==
  IF list = <<>> THEN [dispatched |-> dispatched, rest |-> list]
  ELSE [dispatched |-> Append(dispatched, Head(list)), rest |-> Tail(list)]

\* The loop iterating over the list without shift(): the entries are
\* dispatched and stay in the list.
DispatchWithoutShift(list, dispatched) ==
  [dispatched |-> dispatched \o list, rest |-> list]

\* The while loop of cleanupFiles / cleanupDirs: shift, hand to rimraf.
RECURSIVE ShiftAndDispatch(_, _)
ShiftAndDispatch(list, dispatched) ==
  IF list = <<>> THEN [dispatched |-> dispatched, rest |-> list]
  ELSE ShiftAndDispatch(Tail(list), Append(dispatched, Head(list)))

\* cleanupFiles / cleanupDirs without the test of `tracking`.
StartDrainUnchecked(list) ==
  IF Len(list) = 0
    THEN [drain |-> [NoDrain EXCEPT !.started = TRUE,
                                    !.done = <<Completion(NoErr, Some(0))>>],
          rest |-> list]
    ELSE LET w == ShiftAndDispatch(list, <<>>) IN
         [drain |-> [NoDrain EXCEPT !.started = TRUE,
                                    !.left = Len(list),
                                    !.dispatched = w.dispatched,
                                    !.inflight = SeqToSet(w.dispatched)],
          rest |-> w.rest]

\* The body of cleanupFiles / cleanupDirs after promisify, on the list it
\* drains: the closure it leaves behind and the list afterwards.
StartDrain(list) ==
  IF ~tracking
    THEN [drain |-> [NoDrain EXCEPT !.started = TRUE,
                                    !.done = <<Completion(NotTracking, Undefined)>>],
          rest |-> list]
    ELSE IF Len(list) = 0
      THEN [drain |-> [NoDrain EXCEPT !.started = TRUE,
                                      !.done = <<Completion(NoErr, Some(0))>>],
            rest |-> list]
      ELSE LET w == ShiftAndDispatch(list, <<>>) IN
           [drain |-> [NoDrain EXCEPT !.started = TRUE,
                                      !.left = Len(list),
                                      !.dispatched = w.dispatched,
                                      !.inflight = SeqToSet(w.dispatched)],
            rest |-> w.rest]

cleanupFilesStart == StartDrain(filesToDelete)

cleanupDirsStart == StartDrain(dirsToDelete)

\* rimraf reported on path p: it leaves the requests in flight whatever the
\* callback then does; oks counts the reports of success, failed holds the
\* paths reported with an error.
Reported(d, p, err) ==
  [d EXCEPT !.inflight = @ \ {p},
            !.oks = IF err THEN @ ELSE @ + 1,
            !.failed = IF err THEN @ \cup {p} ELSE @]

\* rimrafCallback of cleanupFiles without `left = 0` in the error branch.
filesRimrafCallbackNoAbort(d, p, err) ==
  LET r == Reported(d, p, err) IN
  IF d.left = 0 THEN r
  ELSE IF err
    THEN [r EXCEPT !.done = Append(@, Completion(RimrafErr, Undefined))]
    ELSE [r EXCEPT !.count = d.count + 1,
                   !.left = d.left - 1,
                   !.done = IF d.left - 1 = 0
                              THEN Append(@, Completion(NoErr, Some(d.count + 1)))
                              ELSE @]

\* rimrafCallback of cleanupFiles (index.ts:168-186).
filesRimrafCallback(d, p, err) ==
  LET r == Reported(d, p, err) IN
  IF d.left = 0 THEN r
  ELSE IF err
    THEN [r EXCEPT !.done = Append(@, Completion(RimrafErr, Undefined)), !.left = 0]
    ELSE [r EXCEPT !.count = d.count + 1,
                   !.left = d.left - 1,
                   !.done = IF d.left - 1 = 0
                              THEN Append(@, Completion(NoErr, Some(d.count + 1)))
                              ELSE @]

\* rimrafCallback of cleanupDirs completing one callback early (left <= 1).
dirsRimrafCallbackEarly(d, p, err) ==
  LET r == Reported(d, p, err) IN
  IF d.left = 0 THEN r
  ELSE IF err
    THEN [r EXCEPT !.done = Append(@, Completion(RimrafErr, Some(d.count))), !.left = 0]
    ELSE [r EXCEPT !.count = d.count + 1,
                   !.left = IF d.left - 1 <= 1 THEN 0 ELSE d.left - 1,
                   !.done = IF d.left - 1 <= 1
                              THEN Append(@, Completion(NoErr, Some(d.count + 1)))
                              ELSE @]

\* rimrafCallback of cleanupDirs (index.ts:221-239).
dirsRimrafCallback(d, p, err) ==
  LET r == Reported(d, p, err) IN
  IF d.left = 0 THEN r
  ELSE IF err
    THEN [r EXCEPT !.done = Append(@, Completion(RimrafErr, Some(d.count))), !.left = 0]
    ELSE [r EXCEPT !.count = d.count + 1,
                   !.left = d.left - 1,
                   !.done = IF d.left - 1 = 0
                              THEN Append(@, Completion(NoErr, Some(d.count + 1)))
                              ELSE @]

\* One invocation of cleanup's callback: callback(err) or callback(err, {files, dirs}).
Delivery(err, result) == [err |-> err, result |-> result]
Stats(f, d) == [files |-> f, dirs |-> d]

\* The callback handed to cleanupDirs passing on { dirs: dirCount } only.
dirStageDropsFiles(call, before) ==
  IF Len(call.dirs.done) > before
    THEN LET e == call.dirs.done[Len(call.dirs.done)]
         IN [call EXCEPT !.delivered =
               Append(@, Delivery(e.err, Some(Stats(Undefined, e.count))))]
    ELSE call

\* The callback cleanup hands to cleanupDirs (index.ts:270-272), run for each
\* completion the dir drain has made since `before`.
dirStage(call, before) ==
  IF Len(call.dirs.done) > before
    THEN LET e == call.dirs.done[Len(call.dirs.done)]
             fileCount == call.files.done[Len(call.files.done)].count
         IN [call EXCEPT !.delivered =
               Append(@, Delivery(e.err, Some(Stats(fileCount, e.count))))]
    ELSE call

\* The callback cleanup hands to cleanupFiles (index.ts:266-274), run for each
\* completion the file drain has made since `before`: the call and the
\* directory list afterwards.
fileStage(call, before) ==
  IF Len(call.files.done) > before
    THEN LET e == call.files.done[Len(call.files.done)] IN
         IF e.err # NoErr
           THEN [call |-> [call EXCEPT !.delivered =
                             Append(@, Delivery(e.err, Some(Stats(e.count, Undefined))))],
                 dirs |-> dirsToDelete]
           ELSE LET s == cleanupDirsStart IN
                [call |-> dirStage([call EXCEPT !.dirs = s.drain], 0),
                 dirs |-> s.rest]
    ELSE [call |-> call, dirs |-> dirsToDelete]

\* A closure lives as long as one of its removals is in flight.
InFlight(call) == call.files.inflight # {} \/ call.dirs.inflight # {}
Keep(call) == IF InFlight(call) THEN call ELSE NoCall
Free(c) == ~InFlight(calls[c])
HasFree == \E c \in Slots : Free(c)
FreeSlot == CHOOSE c \in Slots : Free(c) /\ \A b \in Slots : Free(b) => c <= b

AsyncRes(call) ==
  IF call.delivered = <<>> THEN Res("pending", Undefined, Undefined)
  ELSE LET v == call.delivered[Len(call.delivered)] IN
       IF v.err # NoErr THEN Res(v.err, Undefined, Undefined)
       ELSE Res("stats", v.result[1].files, v.result[1].dirs)

cleanup ==
  /\ Running /\ (tracking => HasFree)
  /\ LET c == FreeSlot
         fresh == [NoCall EXCEPT !.op = "cleanup"]
     IN IF ~tracking
          THEN /\ UNCHANGED calls
               /\ last' = Last("cleanup", Res(NotTracking, Undefined, Undefined), <<>>,
                               [fresh EXCEPT !.delivered = <<Delivery(NotTracking, Undefined)>>])
               /\ UNCHANGED <<filesToDelete, dirsToDelete, drained>>
          ELSE LET f == cleanupFilesStart
                   r == fileStage([fresh EXCEPT !.files = f.drain], 0)
               IN /\ calls' = [calls EXCEPT ![c] = Keep(r.call)]
                  /\ filesToDelete' = f.rest
                  /\ dirsToDelete' = r.dirs
                  /\ last' = Last("cleanup", AsyncRes(r.call), <<>>, r.call)
                  /\ drained' = Drained(f.drain.dispatched \o r.call.dirs.dispatched,
                                         DeliveredCount(NoCall, r.call), FALSE)
  /\ UNCHANGED <<tracking, exitListenerAttached, exitListeners, creation, exitState, warned, trackCalled, promisified>>

\* Whether this callback of rimraf invoked its drain's completion.
Completed(d, e, kind) ==
  IF Len(e.done) > Len(d.done) THEN Res(kind, Undefined, Undefined) ELSE NoRes

\* rimraf calls back for a file of call c.
filesRimrafDone(c, p, err) ==
  /\ Running
  /\ p \in calls[c].files.inflight
  /\ LET call == calls[c]
         d == filesRimrafCallback(call.files, p, err)
         r == IF call.op = "cleanup"
                THEN fileStage([call EXCEPT !.files = d], Len(call.files.done))
                ELSE [call |-> [call EXCEPT !.files = d], dirs |-> dirsToDelete]
     IN /\ calls' = [calls EXCEPT ![c] = Keep(r.call)]
        /\ dirsToDelete' = r.dirs
        /\ last' = Last("rimrafCallback", Completed(call.files, d, "files"), <<>>, r.call)
        /\ drained' = Drained(r.call.dirs.dispatched, DeliveredCount(call, r.call), err)
  /\ UNCHANGED <<tracking, exitListenerAttached, exitListeners, filesToDelete, creation,
                 exitState, warned, trackCalled, promisified>>

\* rimraf calls back for a directory of call c.
dirsRimrafDone(c, p, err) ==
  /\ Running
  /\ p \in calls[c].dirs.inflight
  /\ LET call == calls[c]
         d == dirsRimrafCallback(call.dirs, p, err)
         r == IF call.op = "cleanup"
                THEN dirStage([call EXCEPT !.dirs = d], Len(call.dirs.done))
                ELSE [call EXCEPT !.dirs = d]
     IN /\ calls' = [calls EXCEPT ![c] = Keep(r)]
        /\ last' = Last("rimrafCallback", Completed(call.dirs, d, "dirs"), <<>>, r)
        /\ drained' = Drained(<<>>, DeliveredCount(call, r), err)
  /\ UNCHANGED <<registry, creation, exitState, warned, trackCalled, promisified>>

\* ------------------------------------------------------------------ the module's own calls
\* cleanupFilesSync, cleanupDirsSync, cleanupFiles and cleanupDirs are not
\* exported; UnitSpec calls them directly, as a test of the module would.
callCleanupFilesSync(bad) ==
  /\ Running
  /\ LET r == cleanupFilesSync(bad) IN
       /\ filesToDelete' = r.rest
       /\ last' = Last("cleanupFilesSync",
                       IF r.off THEN Res("false", Undefined, Undefined)
                       ELSE IF r.threw THEN Res("threw", Undefined, Undefined)
                       ELSE Res("count", Some(r.count), Undefined),
                       r.attempted, NoCall)
       /\ drained' = Drained(r.attempted, IF r.threw THEN 0 ELSE r.count, r.threw)
  /\ UNCHANGED <<tracking, exitListenerAttached, exitListeners, dirsToDelete, creation,
                 calls, exitState, warned, trackCalled, promisified>>

callCleanupDirsSync(bad) ==
  /\ Running
  /\ LET r == cleanupDirsSync(bad) IN
       /\ dirsToDelete' = r.rest
       /\ last' = Last("cleanupDirsSync",
                       IF r.off THEN Res("false", Undefined, Undefined)
                       ELSE IF r.threw THEN Res("threw", Undefined, Undefined)
                       ELSE Res("count", Undefined, Some(r.count)),
                       r.attempted, NoCall)
       /\ drained' = Drained(r.attempted, IF r.threw THEN 0 ELSE r.count, r.threw)
  /\ UNCHANGED <<tracking, exitListenerAttached, exitListeners, filesToDelete, creation,
                 calls, exitState, warned, trackCalled, promisified>>

DrainRes(d) ==
  IF d.done = <<>> THEN Res("pending", Undefined, Undefined)
  ELSE LET e == d.done[Len(d.done)] IN
       IF e.err # NoErr THEN Res(e.err, Undefined, Undefined)
       ELSE Res("count", e.count, Undefined)

callCleanupFiles ==
  /\ Running /\ HasFree
  /\ LET f == cleanupFilesStart
         call == [NoCall EXCEPT !.op = "cleanupFiles", !.files = f.drain]
     IN /\ calls' = [calls EXCEPT ![FreeSlot] = Keep(call)]
        /\ filesToDelete' = f.rest
        /\ last' = Last("cleanupFiles", DrainRes(f.drain), <<>>, call)
        /\ drained' = Drained(f.drain.dispatched, 0, FALSE)
  /\ UNCHANGED <<tracking, exitListenerAttached, exitListeners, dirsToDelete, creation,
                 exitState, warned, trackCalled, promisified>>

callCleanupDirs ==
  /\ Running /\ HasFree
  /\ LET f == cleanupDirsStart
         call == [NoCall EXCEPT !.op = "cleanupDirs", !.dirs = f.drain]
     IN /\ calls' = [calls EXCEPT ![FreeSlot] = Keep(call)]
        /\ dirsToDelete' = f.rest
        /\ last' = Last("cleanupDirs", DrainRes(f.drain), <<>>, call)
        /\ drained' = Drained(f.drain.dispatched, 0, FALSE)
  /\ UNCHANGED <<tracking, exitListenerAttached, exitListeners, filesToDelete, creation,
                 exitState, warned, trackCalled, promisified>>

\* ------------------------------------------------------------------ specifications
Next ==
  \/ \E value \in BOOLEAN : track(value)
  \/ \E a \in AffixKinds : mkdir(a)
  \/ \E p \in Names, err \in BOOLEAN : mkdirCallback(p, err)
  \/ \E a \in AffixKinds, ok \in BOOLEAN : mkdirSync(a, ok)
  \/ \E a \in AffixKinds : open(a)
  \/ \E p \in Names, err \in BOOLEAN : openCallback(p, err)
  \/ \E a \in AffixKinds, ok \in BOOLEAN : openSync(a, ok)
  \/ \E a \in AffixKinds : createWriteStream(a)
  \/ \E p \in Names, err \in BOOLEAN : streamOpened(p, err)
  \/ \E bad \in BadSets : cleanupSync(bad)
  \/ cleanup
  \/ \E c \in Slots, p \in Names, err \in BOOLEAN : filesRimrafDone(c, p, err)
  \/ \E c \in Slots, p \in Names, err \in BOOLEAN : dirsRimrafDone(c, p, err)
  \/ \E bad \in BadSets : exitListener(bad)

Spec == Init /\ [][Next]_vars

UnitNext ==
  \/ Next
  \/ \E bad \in BadSets : callCleanupFilesSync(bad)
  \/ \E bad \in BadSets : callCleanupDirsSync(bad)
  \/ callCleanupFiles
  \/ callCleanupDirs

UnitSpec == Init /\ [][UnitNext]_vars

\* promisify on its own: one call of it with or without a callback, then calls
\* of the callback it returned and the ticks they queue.
PromisifyNext ==
  \/ \E callback \in {"function", "undefined"} : callPromisify(callback)
  \/ \E arguments \in Arguments : callCallback(arguments)
  \/ nextTick

PromisifySpec == Init /\ [][PromisifyNext]_vars

\* UnitSpec with the history of removals and counts kept.
RecordingSpec == InitRecording /\ [][UnitNext]_vars

\* rimraf calls back for every request while the process runs; what is used of
\* it is that a closure with requests in flight gets one of its callbacks.
RimrafCallsBack(c) ==
  \E p \in Names, err \in BOOLEAN : filesRimrafDone(c, p, err) \/ dirsRimrafDone(c, p, err)

FairSpec == Spec /\ \A c \in Slots : WF_vars(RimrafCallsBack(c))

\* ================================================================== properties

SyncCleanupOps == {"cleanupSync", "cleanupFilesSync", "cleanupDirsSync", "exit"}
AsyncCleanupOps == {"cleanup", "cleanupFiles", "cleanupDirs"}

AllInFlight == UNION {calls[c].files.inflight \cup calls[c].dirs.inflight : c \in Slots}

\* C1: with tracking on and no directory pending, a cleanupSync that returns
\* has attempted exactly the pending files, in order, and returns
\* {files: N, dirs: 0} for the N files that were pending; a cleanupSync that
\* directly follows a cleanupSync that returned counts attempts nothing and
\* returns {files: 0, dirs: 0}.
C1_SyncDrainCountsAndIsIdempotent ==
  [][ (last'.op = "cleanupSync" /\ tracking /\ last'.res.kind # "threw")
        => /\ (dirsToDelete = <<>> =>
                 /\ last'.res = Res("stats", Some(Len(filesToDelete)), Some(0))
                 /\ last'.attempted = filesToDelete)
           /\ filesToDelete' = <<>> /\ dirsToDelete' = <<>>
           /\ (last'.before.kind = "stats" =>
                 /\ last'.res = Res("stats", Some(0), Some(0))
                 /\ last'.attempted = <<>>) ]_vars

\* C1 witness: two files were drained by one cleanupSync and the next
\* cleanupSync found nothing.
C1_Witness ==
  /\ last.op = "cleanupSync"
  /\ last.before = Res("stats", Some(2), Some(0))
  /\ last.res = Res("stats", Some(0), Some(0))

\* C2: once the exit listener has run to completion with tracking on, both
\* pending lists are empty.
C2_ExitDrainsBothLists ==
  (exitState = "exited" /\ tracking) => (filesToDelete = <<>> /\ dirsToDelete = <<>>)

\* C2 witness: the exit listener removed a file and a directory.
C2_Witness ==
  /\ exitState = "exited" /\ tracking /\ last.op = "exit"
  /\ last.res = Res("stats", Some(1), Some(1))
  /\ Len(last.attempted) = 2

\* C3 as stated: where track() was never called the flag is on, a creation
\* that succeeded has attached the exit listener on registering, and
\* cleanupSync returns counts, not false.
C3_TrackingOnAtLoad ==
  ~trackCalled =>
    /\ tracking
    /\ (created # {} => exitListenerAttached)
    /\ (last.op = "cleanupSync" => last.res.kind # "false")

\* C3 amended: where track() was never called the flag is off: nothing is ever
\* registered (both lists are empty and no exit listener is attached) and
\* cleanupSync returns false.
C3_TrackingOffAtLoad ==
  ~trackCalled =>
    /\ ~tracking
    /\ filesToDelete = <<>> /\ dirsToDelete = <<>>
    /\ ~exitListenerAttached /\ exitListeners = 0
    /\ (last.op = "cleanupSync" => last.res.kind = "false")

\* C3 witness: a creation succeeded, track() was never called, and cleanupSync
\* returned false.
C3_Witness ==
  /\ ~trackCalled /\ created # {}
  /\ last.op = "cleanupSync" /\ last.res.kind = "false"

\* C4: a cleanup operation run while tracking is off dispatches no removal,
\* leaves both lists as they are and reports it: the synchronous ones return
\* false, the asynchronous ones call back with the "not tracking" error.  The
\* last conjunct is cleanupDirs as cleanup calls it once its files are done.
C4_NotTrackingTouchesNothing ==
  [][ ~tracking =>
        /\ (last'.op \in SyncCleanupOps \cup AsyncCleanupOps =>
              /\ filesToDelete' = filesToDelete
              /\ dirsToDelete' = dirsToDelete
              /\ last'.attempted = <<>>
              /\ last'.call.files.dispatched = <<>>
              /\ last'.call.dirs.dispatched = <<>>)
        /\ (last'.op \in AsyncCleanupOps => calls' = calls)
        /\ (last'.op \in SyncCleanupOps \ {"exit"} => last'.res.kind = "false")
        /\ (last'.op = "exit" => last'.res.kind \in {"false", "none"})
        /\ (last'.op \in AsyncCleanupOps => last'.res.kind = NotTracking)
        /\ (last'.op = "cleanup" =>
              last'.call.delivered = <<Delivery(NotTracking, Undefined)>>)
        /\ (last'.op = "cleanupFiles" =>
              last'.call.files.done = <<Completion(NotTracking, Undefined)>>)
        /\ (last'.op = "cleanupDirs" =>
              last'.call.dirs.done = <<Completion(NotTracking, Undefined)>>)
        /\ \A c \in Slots :
             (/\ last'.op = "rimrafCallback"
              /\ calls[c].files.inflight # {}
              /\ calls[c].files.dispatched = last'.call.files.dispatched
              /\ last'.call.dirs.started)
               => /\ dirsToDelete' = dirsToDelete
                  /\ last'.call.dirs.dispatched = <<>>
                  /\ last'.call.dirs.done = <<Completion(NotTracking, Undefined)>>
                  /\ AllInFlight' \subseteq AllInFlight ]_vars

\* C4 witness: cleanupFiles was called with tracking off and two files pending.
C4_Witness ==
  /\ ~tracking /\ Len(filesToDelete) = 2
  /\ last.op = "cleanupFiles" /\ last.res.kind = NotTracking

\* C5 as stated: when a removal's failure completes a drain, the completion
\* carries the error and the number of removals of that drain that had
\* reported success by then, and so does what cleanup passes on.
C5_ErrorCarriesCount ==
  (last.op = "rimrafCallback" /\ last.res.kind \in {"files", "dirs"}) =>
    LET d == IF last.res.kind = "files" THEN last.call.files ELSE last.call.dirs
        e == d.done[Len(d.done)]
    IN e.err = RimrafErr =>
         /\ e.count = Some(d.oks)
         /\ (last.call.op = "cleanup" =>
               LET v == last.call.delivered[Len(last.call.delivered)] IN
               /\ v.err = RimrafErr
               /\ v.result # Undefined
               /\ IF last.res.kind = "files"
                    THEN v.result[1].files = Some(d.oks)
                    ELSE /\ v.result[1].files = Some(last.call.files.oks)
                         /\ v.result[1].dirs = Some(d.oks))

\* C6 as stated: every path in a pending list is the path of a creation that
\* has reported success.
C6_RegisteredOnlyAfterCreation ==
  \A p \in Pending : p \in created

\* C7: the process never holds more than one exit listener, and
\* exitListenerAttached, once true, stays true.
C7_ExitListenerOnce ==
  /\ [](exitListeners <= 1)
  /\ [][exitListenerAttached => exitListenerAttached']_vars

\* C7 witness: a file and a directory were registered and one listener is
\* attached.
C7_Witness ==
  /\ exitListeners = 1 /\ exitListenerAttached
  /\ filesToDelete # <<>> /\ dirsToDelete # <<>>

\* The closure in slot c before a step is the one the step called back into.
SameCall(c) ==
  /\ InFlight(calls[c])
  /\ last'.op = "rimrafCallback"
  /\ calls[c].files.dispatched = last'.call.files.dispatched
  /\ calls'[c] = Keep(last'.call)

\* C8: a drain empties its list when it starts and dispatches exactly what the
\* list held, in order; what a started drain has dispatched never changes; a
\* path registered while removals are in flight goes to the list, belongs to no
\* drain, and leaves every closure as it was.
C8_DrainTakesSnapshot ==
  [][ /\ (last'.op = "cleanup" /\ tracking =>
            /\ filesToDelete' = <<>>
            /\ last'.call.files.dispatched = filesToDelete
            /\ last'.call.files.inflight = SeqToSet(filesToDelete)
            /\ (last'.call.dirs.started =>
                  /\ dirsToDelete' = <<>>
                  /\ last'.call.dirs.dispatched = dirsToDelete
                  /\ last'.call.dirs.inflight = SeqToSet(dirsToDelete)))
      /\ \A c \in Slots : SameCall(c) =>
            /\ (calls[c].dirs.started =>
                  last'.call.dirs.dispatched = calls[c].dirs.dispatched)
            /\ (~calls[c].dirs.started /\ last'.call.dirs.started /\ tracking =>
                  /\ dirsToDelete' = <<>>
                  /\ last'.call.dirs.dispatched = dirsToDelete
                  /\ last'.call.dirs.inflight = SeqToSet(dirsToDelete))
      /\ ((Len(filesToDelete') > Len(filesToDelete) \/ Len(dirsToDelete') > Len(dirsToDelete)) =>
            /\ calls' = calls
            /\ SeqToSet(filesToDelete) \subseteq SeqToSet(filesToDelete')
            /\ SeqToSet(dirsToDelete) \subseteq SeqToSet(dirsToDelete')
            /\ \A c \in Slots :
                 (SeqToSet(calls'[c].files.dispatched) \cup SeqToSet(calls'[c].dirs.dispatched))
                   \cap (SeqToSet(filesToDelete') \cup SeqToSet(dirsToDelete')) = {}) ]_vars

\* C8 witness: a file drain has a removal in flight and a file registered
\* since is in the list.
C8_Witness ==
  \E c \in Slots :
    /\ calls[c].files.inflight # {}
    /\ filesToDelete # <<>>

\* What C9 says cleanup's callback gets: the counts of the two stages when
\* neither failed, else the error with the count of the successes so far of
\* each stage that ran.
C9Delivered(call) ==
  call.delivered # <<>> =>
    LET v == call.delivered[Len(call.delivered)] IN
    IF v.err = NoErr
      THEN v.result = Some(Stats(Some(Len(call.files.dispatched)),
                                 Some(Len(call.dirs.dispatched))))
      ELSE IF v.err = NotTracking /\ ~call.files.started THEN v.result = Undefined
      ELSE v.result = Some(Stats(Some(call.files.count),
                                 IF call.dirs.dispatched # <<>>
                                   THEN Some(call.dirs.count) ELSE Undefined))

C9Ordered(call) ==
  /\ (call.dirs.started =>
        /\ call.files.inflight = {}
        /\ call.files.done = <<Completion(NoErr, Some(Len(call.files.dispatched)))>>)
  /\ (call.files.done # <<>> /\ call.files.done[1].err # NoErr =>
        ~call.dirs.started /\ call.dirs.dispatched = <<>>)

\* C9 as stated: cleanup starts its directory drain only when the file drain
\* has completed without error; a file drain that fails leaves the directory
\* list alone; the callback gets both counts, or the error with the partial
\* counts.
C9_CleanupStages ==
  [][ last'.call.op = "cleanup" =>
        /\ C9Ordered(last'.call)
        /\ (last'.res.kind = "files" /\ last'.call.files.done[1].err # NoErr =>
              dirsToDelete' = dirsToDelete)
        /\ C9Delivered(last'.call) ]_vars

\* A drain on which no removal has failed and which found tracking on.
NoFailure(d) ==
  /\ d.started
  /\ d.oks + Cardinality(d.inflight) = Len(d.dispatched)
  /\ (d.done # <<>> => d.done[1].err # NotTracking)

\* C10 for one drain: one request per entry, the completion not before the last
\* report and not later than it, with the number dispatched; nothing pending,
\* nothing dispatched and a count of 0.
C10Drain(d) ==
  NoFailure(d) =>
    /\ Cardinality(SeqToSet(d.dispatched)) = Len(d.dispatched)
    /\ d.inflight \subseteq SeqToSet(d.dispatched)
    /\ (d.done # <<>> => d.inflight = {})
    /\ (d.inflight = {} => d.done = <<Completion(NoErr, Some(Len(d.dispatched)))>>)

\* C10: with tracking on and no removal failing, a drain has one request in
\* flight per entry pending at its start, completes exactly when the last of
\* its requests has reported, with the number of entries it dispatched; and
\* from any point on, a closure with removals in flight is eventually done with
\* them (so, by the second part, has completed), or the process has exited.
C10_DrainCompletesWithCount ==
  /\ [][ /\ (last'.op = "cleanup" /\ tracking =>
               /\ Cardinality(last'.call.files.inflight) = Len(filesToDelete)
               /\ (last'.call.dirs.started =>
                     Cardinality(last'.call.dirs.inflight) = Len(dirsToDelete)))
         /\ \A c \in Slots :
              (SameCall(c) /\ ~calls[c].dirs.started /\ last'.call.dirs.started /\ tracking)
                => Cardinality(last'.call.dirs.inflight) = Len(dirsToDelete) ]_vars
  /\ [](/\ C10Drain(last.call.files) /\ C10Drain(last.call.dirs)
        /\ \A c \in Slots : C10Drain(calls[c].files) /\ C10Drain(calls[c].dirs))
  /\ \A c \in Slots : []<>(~InFlight(calls[c]) \/ ~Running)

\* C10 witness: a directory drain of two entries completed with count 2.
C10_Witness ==
  /\ last.op = "rimrafCallback" /\ last.res.kind = "dirs"
  /\ last.call.dirs.done = <<Completion(NoErr, Some(2))>>
  /\ Len(last.call.dirs.dispatched) = 2

\* A drain's completion, and cleanup's callback, have been invoked at most
\* once, and once when every request of a started drain has reported.
C11Once(call) ==
  /\ Len(call.files.done) <= 1 /\ Len(call.dirs.done) <= 1 /\ Len(call.delivered) <= 1
  /\ (call.files.started /\ call.files.inflight = {} => Len(call.files.done) = 1)
  /\ (call.dirs.started /\ call.dirs.inflight = {} => Len(call.dirs.done) = 1)

\* One callback of rimraf into drain d, leaving it as e: the first report of
\* an error completes the drain at once with that error; a report that arrives
\* when the drain has completed changes nothing of its closure.
C11Callback(d, e) ==
  /\ (d.done = <<>> /\ e.inflight # d.inflight /\ e.oks = d.oks =>
        /\ Len(e.done) = 1 /\ e.done[1].err = RimrafErr)
  /\ (d.done # <<>> =>
        /\ e.done = d.done /\ e.count = d.count /\ e.left = d.left)

\* C11: the first removal callback of a drain that reports an error invokes
\* the drain's completion at once with that error; every callback of that
\* drain that arrives later is ignored (the closure and what cleanup delivered
\* stay as they are); so a drain's completion is invoked at most once, once
\* when all its requests have reported, and every closure with requests in
\* flight is eventually done with them unless the process exits.
C11_FirstErrorAbortsOnce ==
  /\ [][ \A c \in Slots : SameCall(c) =>
            /\ C11Callback(calls[c].files, last'.call.files)
            /\ (calls[c].dirs.started =>
                  C11Callback(calls[c].dirs, last'.call.dirs))
            /\ (calls[c].delivered # <<>> =>
                  last'.call.delivered = calls[c].delivered) ]_vars
  /\ [](C11Once(last.call) /\ \A c \in Slots : C11Once(calls[c]))
  /\ \A c \in Slots : []<>((calls[c].files.inflight = {} /\ calls[c].dirs.inflight = {})
                             \/ exitState # "running")

\* C11 witness: of two file removals of one drain the first to report failed
\* and completed the drain; the second reported afterwards and was ignored.
C11_Witness ==
  /\ last.op = "rimrafCallback" /\ last.res = NoRes
  /\ Len(last.call.files.dispatched) = 2
  /\ last.call.files.inflight = {}
  /\ last.call.files.done = <<Completion(RimrafErr, Undefined)>>
  /\ last.call.delivered = <<Delivery(RimrafErr, Some(Stats(Undefined, Undefined)))>>

\* The entries of list that are not in after.
Gone(list, after) == SeqToSet(list) \ SeqToSet(after)

\* The entries the step's operation took: those a synchronous pass shifted
\* and those an asynchronous drain dispatched.
C12Taken(l) ==
  SeqToSet(l.attempted) \cup SeqToSet(l.call.files.dispatched)
                        \cup SeqToSet(l.call.dirs.dispatched)

\* C12: an entry leaves a pending list only in a step of a cleanup operation
\* that found tracking on, and only by being taken by it; what an operation
\* took is in neither list afterwards, whether or not its removal succeeded;
\* when rimrafSync raises, the entry it raised on was pending and is gone, and
\* the entries behind it are still there.
C12_TakingIsDestructive ==
  [][ /\ (Gone(filesToDelete, filesToDelete') # {} =>
            /\ tracking
            /\ last'.op \in {"cleanupSync", "exit", "cleanupFilesSync", "cleanup", "cleanupFiles"}
            /\ Gone(filesToDelete, filesToDelete') \subseteq C12Taken(last'))
      /\ (Gone(dirsToDelete, dirsToDelete') # {} =>
            /\ tracking
            /\ last'.op \in {"cleanupSync", "exit", "cleanupDirsSync", "cleanup", "cleanupDirs",
                              "rimrafCallback"}
            /\ Gone(dirsToDelete, dirsToDelete') \subseteq C12Taken(last'))
      /\ (last'.op \in SyncCleanupOps \cup AsyncCleanupOps \cup {"rimrafCallback"} =>
            C12Taken(last') \cap Pending' = {})
      /\ (last'.op \in SyncCleanupOps /\ last'.res.kind = "threw" =>
            LET n == Len(last'.attempted) IN
            /\ n > 0
            /\ last'.attempted[n] \in Pending
            /\ last'.attempted[n] \notin Pending'
            /\ Pending' = Pending \ SeqToSet(last'.attempted)) ]_vars

\* C12 witness: cleanupSync raised on the first of two pending files; the
\* second is still pending.
C12_Witness ==
  /\ last.op = "cleanupSync" /\ last.res.kind = "threw"
  /\ Len(last.attempted) = 1
  /\ Len(filesToDelete) = 1
  /\ last.attempted[1] \notin Pending

\* The steps in which a creation that succeeded registers path p: the
\* callbacks of fs.open and mkdirp, the synchronous factories, and
\* createWriteStream.
RegistersFile(p) ==
  \/ openCallback(p, FALSE)
  \/ /\ p = generateName
     /\ \E a \in AffixKinds :
          ~parseAffixesThrows(a) /\ (openSync(a, TRUE) \/ createWriteStream(a))

RegistersDir(p) ==
  \/ mkdirCallback(p, FALSE)
  \/ /\ p = generateName
     /\ \E a \in AffixKinds : ~parseAffixesThrows(a) /\ mkdirSync(a, TRUE)

\* After a registration made with tracking on, one exit listener is attached:
\* the one there was, or a new one.
ListenerEnsured ==
  /\ exitListenerAttached'
  /\ exitListeners' = IF exitListenerAttached THEN exitListeners ELSE exitListeners + 1
  /\ exitListeners' = 1

\* C13: a registration made while tracking is off changes neither list and
\* attaches no exit listener; one made while tracking is on leaves the exit
\* listener attached and appends the path at the end of the list of its kind,
\* the other list staying as it is.
C13_RegistrationFrame ==
  [][ \A p \in Names :
        /\ (RegistersFile(p) =>
              IF tracking
                THEN /\ ListenerEnsured
                     /\ filesToDelete' = Append(filesToDelete, p)
                     /\ dirsToDelete' = dirsToDelete
                ELSE UNCHANGED registry)
        /\ (RegistersDir(p) =>
              IF tracking
                THEN /\ ListenerEnsured
                     /\ dirsToDelete' = Append(dirsToDelete, p)
                     /\ filesToDelete' = filesToDelete
                ELSE UNCHANGED registry) ]_vars

\* C13 witness: the first path was registered as a file; tracking was then
\* turned off and the second creation, which succeeded, registered nothing.
C13_Witness ==
  /\ ~tracking /\ exitListenerAttached
  /\ filesToDelete = <<1>> /\ dirsToDelete = <<>>
  /\ created = {1, 2}

\* s is the first Len(s) entries of t.
IsPrefix(s, t) == Len(s) <= Len(t) /\ \A k \in 1..Len(s) : s[k] = t[k]

\* s is the last Len(s) entries of t.
IsSuffix(s, t) ==
  Len(s) <= Len(t) /\ \A k \in 1..Len(s) : s[k] = t[Len(t) - Len(s) + k]

\* A list after a step is the list before with an entry appended or with
\* entries taken from the front: it stays in insertion order.
KeepsInsertionOrder(list, after) ==
  \/ \E p \in Names : after = Append(list, p)
  \/ IsSuffix(after, list)

\* The k-th removal a step attempted or dispatched is the k-th entry the
\* list held before the step.
C14Fifo ==
  /\ KeepsInsertionOrder(filesToDelete, filesToDelete')
  /\ KeepsInsertionOrder(dirsToDelete, dirsToDelete')
  /\ (last'.op = "cleanupFilesSync" => IsPrefix(last'.attempted, filesToDelete))
  /\ (last'.op = "cleanupDirsSync" => IsPrefix(last'.attempted, dirsToDelete))
  /\ (last'.op \in {"cleanupSync", "exit"} =>
        /\ IsPrefix(last'.attempted, filesToDelete \o dirsToDelete)
        /\ (Len(last'.attempted) > Len(filesToDelete) => filesToDelete' = <<>>))
  /\ (last'.op \in {"cleanup", "cleanupFiles"} /\ tracking =>
        \A k \in 1..Len(filesToDelete) : last'.call.files.dispatched[k] = filesToDelete[k])
  /\ (last'.op \in {"cleanup", "cleanupDirs", "rimrafCallback"}
        /\ Len(dirsToDelete') < Len(dirsToDelete) =>
        \A k \in 1..Len(dirsToDelete) : last'.call.dirs.dispatched[k] = dirsToDelete[k])

\* The closure a drain has once its loop has dispatched everything.
Dispatched(d) ==
  [NoDrain EXCEPT !.started = TRUE, !.left = Len(d.dispatched),
                  !.dispatched = d.dispatched, !.inflight = SeqToSet(d.dispatched)]

\* The closure of drain d had its requests reported in the order of dispatch,
\* each with the outcome it had in d.
RECURSIVE CallBackInOrder(_, _, _, _)
CallBackInOrder(e, d, k, kind) ==
  IF k > Len(d.dispatched) THEN e
  ELSE LET p == d.dispatched[k] IN
       CallBackInOrder(IF kind = "files" THEN filesRimrafCallback(e, p, p \in d.failed)
                                         ELSE dirsRimrafCallback(e, p, p \in d.failed),
                       d, k + 1, kind)

\* A drain all of whose requests have reported completed with what it would
\* have completed with had they reported in the order of dispatch.
OrderIndependent(d, kind) ==
  (d.dispatched # <<>> /\ d.inflight = {}) =>
    d.done = CallBackInOrder(Dispatched(d), d, 1, kind).done

\* C14 as stated: removals are attempted, and requests dispatched, in the
\* order of registration, and what an asynchronous drain completes with does
\* not depend on the order in which rimraf's callbacks arrive.
C14_FifoAnyArrivalOrder ==
  [][ /\ C14Fifo
      /\ OrderIndependent(last'.call.files, "files")
      /\ OrderIndependent(last'.call.dirs, "dirs") ]_vars

\* C14 amended: removals are attempted, and requests dispatched, in the order
\* of registration, and what an asynchronous drain none of whose removals
\* failed completes with does not depend on the order in which rimraf's
\* callbacks arrive.
C14_FifoArrivalOrderWithoutFailure ==
  [][ /\ C14Fifo
      /\ (last'.call.files.failed = {} => OrderIndependent(last'.call.files, "files"))
      /\ (last'.call.dirs.failed = {} => OrderIndependent(last'.call.dirs, "dirs")) ]_vars

\* C14 witness: two directories were dispatched by one drain, both removals
\* reported success, and the drain completed with count 2.
C14_Witness ==
  /\ last.op = "rimrafCallback" /\ last.res.kind = "dirs"
  /\ Len(last.call.dirs.dispatched) = 2
  /\ last.call.dirs.failed = {}
  /\ last.call.dirs.done = <<Completion(NoErr, Some(2))>>

\* C15: the exit listener removes synchronously and only so: every entry that
\* leaves a list in the exit step was attempted by the step itself, files
\* before directories in list order, and the step leaves no drain closure and
\* no request in flight; when no removal raises (and tracking is on) both
\* lists are fully attempted and nothing is warned about; when a removal
\* raises, the listener has warned and has raised the error again.
C15_ExitListenerSyncAndRethrows ==
  [][ last'.op = "exit" =>
        /\ last'.call = NoCall
        /\ AllInFlight' = {}
        /\ Pending \ Pending' = SeqToSet(last'.attempted)
        /\ IsPrefix(last'.attempted, filesToDelete \o dirsToDelete)
        /\ (exitListeners = 1 /\ tracking /\ last'.res.kind # "threw" =>
              /\ last'.attempted = filesToDelete \o dirsToDelete
              /\ last'.res = Res("stats", Some(Len(filesToDelete)), Some(Len(dirsToDelete)))
              /\ exitState' = "exited" /\ ~warned')
        /\ (last'.res.kind = "threw" => warned' /\ exitState' = "threw")
        /\ (warned' \/ exitState' = "threw" => last'.res.kind = "threw") ]_vars

\* C15 witness: at exit the removal of the one pending directory raised after
\* the one pending file had been removed; the listener warned and raised.
C15_Witness ==
  /\ last.op = "exit" /\ last.res.kind = "threw"
  /\ Len(last.attempted) = 2
  /\ filesToDelete = <<>> /\ dirsToDelete = <<>>
  /\ warned /\ exitState = "threw"

\* What C16 says the promise is settled with by a call of the synthetic
\* callback with error t.err and results t.args.
C16Settled(t) ==
  IF Truthy(t.err) THEN Promise("rejected", t.err)
  ELSE IF Len(t.args) = 0 THEN Promise("resolved", JsUndefined)
  ELSE IF Len(t.args) = 1 THEN Promise("resolved", t.args[1])
  ELSE Promise("resolved", JsArray(t.args))

\* With a callback function supplied promisify returns no promise and the
\* caller's callback, which then gets every call as it was made; with none it
\* returns a pending promise and the synthetic callback.
C16Returned ==
  /\ \A callback \in {"function", "undefined"} : callPromisify(callback) =>
        IF callback = "function"
          THEN promisified'.promise = NoPromise /\ promisified'.callback = "callback"
          ELSE promisified'.promise = PendingPromise
                 /\ promisified'.callback = "promiseCallback"
  /\ \A arguments \in Arguments :
        (callCallback(arguments) /\ promisified.supplied = "function") =>
          /\ promisified'.received = Append(promisified.received, arguments)
          /\ promisified'.promise = NoPromise
          /\ promisified'.ticks = <<>>

RECURSIVE SumTo(_, _)
SumTo(f, n) == IF n = 0 THEN 0 ELSE f[n] + SumTo(f, n - 1)

\* The removals requested so far, all paths together.
Requested == SumTo(drained.requests, MaxNames)

\* The entries a cleanup call that has not completed yet has dispatched.
DispatchedBy(call) == SeqToSet(call.files.dispatched) \cup SeqToSet(call.dirs.dispatched)

\* C17: whatever the interleaving, no path has had more than one removal
\* requested; what two cleanup calls with removals in flight have dispatched
\* is disjoint, and disjoint from what is pending; and as long as no removal
\* has failed, the counts reported by the calls that have completed, plus the
\* entries dispatched by the calls still waiting, are the removals requested
\* (at exit: the count of the exit pass is the number of removals it made).
C17_OneRequestPerRegistration ==
  /\ [](\A p \in Names : drained.requests[p] <= 1)
  /\ [](\A c \in Slots :
          /\ DispatchedBy(calls[c]) \cap Pending = {}
          /\ Cardinality(DispatchedBy(calls[c]))
               = Len(calls[c].files.dispatched) + Len(calls[c].dirs.dispatched)
          /\ \A b \in Slots \ {c} : DispatchedBy(calls[c]) \cap DispatchedBy(calls[b]) = {})
  /\ []((~drained.failed /\ Running) =>
          drained.counted
            + Cardinality(UNION {DispatchedBy(calls[c]) : c \in Slots}) = Requested)
  /\ [][ (last'.op = "exit" /\ ~drained'.failed) =>
           drained'.counted - drained.counted
             = SumTo(drained'.requests, MaxNames) - Requested ]_vars

\* C17 witness: two cleanup calls overlap, each with one removal in flight,
\* and no removal has failed.
C17_Witness ==
  /\ \A c \in {1, 2} : InFlight(calls[c])
  /\ ~drained.failed
  /\ Requested = 2

\* C18: in every reachable state, if a pending list is not empty then the exit
\* listener has been attached: the flag is set and the process holds the
\* listener.
C18_PendingImpliesListener ==
  (filesToDelete # <<>> \/ dirsToDelete # <<>>) =>
    (exitListenerAttached /\ exitListeners >= 1)

\* C18 witness: a directory was registered, tracking was then turned off; the
\* directory is still pending and the listener is attached.
C18_Witness ==
  /\ ~tracking /\ trackCalled
  /\ dirsToDelete # <<>> /\ filesToDelete = <<>>
  /\ exitListenerAttached

\* The step is the callback of rimraf that completes, without error and with
\* tracking off, the file drain of the cleanup call in slot c.
C19Case(c) ==
  /\ SameCall(c)
  /\ ~tracking
  /\ calls[c].op = "cleanup"
  /\ calls[c].files.inflight # {}
  /\ last'.res.kind = "files"
  /\ last'.call.files.done[1].err = NoErr

\* C19: when tracking is off as the last file removal of a cleanup call
\* reports, every file the call dispatched is counted, the directory stage
\* dispatches nothing and leaves the directory list as it is, and cleanup's
\* callback is invoked once, with the "not tracking" error and a result with
\* the file count and no directory count; and while tracking is off the
\* reports of the removals in flight are counted as they are otherwise.
C19_TrackingOffMidCleanup ==
  [][ \A c \in Slots :
        /\ (C19Case(c) =>
              LET call == last'.call IN
              /\ call.files.done = <<Completion(NoErr, Some(Len(call.files.dispatched)))>>
              /\ call.files.count = Len(call.files.dispatched)
              /\ call.dirs.dispatched = <<>> /\ call.dirs.inflight = {}
              /\ dirsToDelete' = dirsToDelete
              /\ AllInFlight' \subseteq AllInFlight
              /\ call.delivered =
                   <<Delivery(NotTracking,
                              Some(Stats(Some(Len(call.files.dispatched)), Undefined)))>>
              /\ calls'[c] = NoCall)
        /\ (SameCall(c) /\ ~tracking /\ calls[c].files.inflight # {}
               /\ calls[c].files.done = <<>>
               /\ last'.call.files.failed = {} =>
              last'.call.files.count = calls[c].files.count + 1) ]_vars

\* C19 witness: a cleanup call dispatched one file with a directory pending,
\* tracking was turned off, the removal reported success: the callback got
\* "not tracking" with { files: 1 } and the directory is still pending.
C19_Witness ==
  /\ ~tracking
  /\ last.op = "rimrafCallback" /\ last.res.kind = "files"
  /\ last.call.delivered = <<Delivery(NotTracking, Some(Stats(Some(1), Undefined)))>>
  /\ dirsToDelete # <<>>

====
